---- MODULE Spec2Model ----
(***************************************************************************)
(* EquilibriumLife: a Telegram mood-tracking bot on AWS Lambda.            *)
(*                                                                         *)
(*   aws_resources/dynamodb.py   AsyncDynamoDBClient.query / scan          *)
(*   bot_handler/webhook.py      the mood-logging conversation             *)
(*   bot_handler/reminders.py    the reminder fan-out job                  *)
(*   bot_handler/mood_history.py the mood history chart                    *)
(*                                                                         *)
(* The specifications of this module:                                      *)
(*   SpecPage  one query/scan call consumed item by item                   *)
(*   SpecRem   one invocation of the reminder job                          *)
(*   SpecConv  the updates of one user dispatched by setup_handlers        *)
(*   SpecHist  mood logs of one user followed by show_history              *)
(*   SpecEntry SpecConv with invocations that raise                        *)
(***************************************************************************)
EXTENDS Integers, Sequences, FiniteSets, TLC

(***************************************************************************)
(* Bounds of the model.                                                    *)
(***************************************************************************)
\* rows of the table a query/scan call of SpecPage runs over
MaxRows == 5
\* most rows the store evaluates for one request when no Limit is passed
MaxCap == 3
\* largest caller-supplied limit
MaxLimit == 3
\* rows of the table the calls of SpecCalls run over
MaxCallRows == 2

\* calls SpecCalls starts
MaxCalls == 3

\* rows of the table the reminder job scans
MaxRemRows == 2
\* updates of the user the webhook handles
MaxUpdates == 6
\* mood logs of the user whose history is shown
MaxHistLogs == 32

(***************************************************************************)
(* Python values.                                                          *)
(***************************************************************************)
\* Python's None (an Optional[int] argument left out)
None == -1

\* truthiness of an Optional[int]: None and 0 are falsy
TruthyInt(x) == x # None /\ x # 0

\* truthiness of a dict or a list: empty is falsy
TruthyDict(d) == d # <<>>

\* dict.get(key, default)
Get(d, key, default) == IF key \in DOMAIN d THEN d[key] ELSE default

Min(a, b) == IF a <= b THEN a ELSE b

Max(a, b) == IF a >= b THEN a ELSE b

Range(s) == {s[i] : i \in DOMAIN s}

\* f"telegram_{user_id}": the two parts a split("_") gives back
UserKey(user_id) == <<"telegram", user_id>>

VARIABLES
    \* ---- the store, as one query/scan call sees it
    rows,                \* the table's rows in store order: [userId, match]
    serverCap,           \* rows the store evaluates per request without Limit
    boundaryCursor,      \* the store returns a cursor with a page that ends
                         \* exactly at the last row (DynamoDB may do so)
    \* ---- one call of AsyncDynamoDBClient.query / scan (an async generator)
    pgOp,                \* "query" or "scan"
    pgLimit,             \* the limit argument (None when left out)
    pgFilter,            \* a filter_expression was supplied
    pgIndex,             \* an index_name was supplied
    pgPc,                \* "request", "page", "done", "raised", "closed"
    exclusive_start_key, \* the generator's local cursor
    response,            \* the page being yielded
    pgIdx,               \* index in response.Items of the next item to yield
    yielded,             \* the items the consumer has received, in order
    calls,               \* the calls of SpecCalls: one record of generator
                         \* state per call slot
    started,             \* how many calls SpecCalls has started
    requests,            \* the requests the store has received, in order
    \* ---- one invocation of the reminder job (reminders.py)
    remPc,               \* "off", "scan", "users", "gather", "done"
    user_ids,            \* the set get_users_with_reminders_enabled builds
    scanRaised,          \* the scan raised and line 35 caught it
    taskPc,              \* per user key: "none", "start", "init", "sending",
                         \* "sent", "done"
    taskOutcome,         \* per user key: "pending", "ok", or the exception
    appInitialized,      \* application._initialized of the shared application
    clientOpen,          \* the shared bot's HTTP client is open
    sendIssued,          \* user keys a send_message request was issued for
    delivered,           \* user keys whose message the chat platform accepted
    remResult,           \* what async_lambda_handler returned
    sendCalls,           \* per user key, the send_reminder calls gather was given
    \* ---- the webhook of one user (webhook.py, mood_history.py)
    convState,           \* per ConversationHandler added to the application,
                         \* in the order added, its state for the user:
                         \* "IDLE" (no conversation), "ASK_MOOD", "ASK_NOTES"
    selectedMood,        \* per ConversationHandler, the query.data of the
                         \* mood_selected of its conversation, "" before it
    user_data,           \* context.user_data of the user
    table,               \* the user's items, kept in sort-key order by the store
    logged,              \* the items put with success, in the order of the puts
    loopClock,           \* asyncio.get_event_loop().time() in the container
    container,           \* the Lambda container that serves the user
    updates,             \* number of updates handled so far
    lastHandler,         \* the handler the last update was dispatched to
    lastCopy,            \* which ConversationHandler took it, 0 if none did
    lastUpdate,          \* the last update
    putLog,              \* the items the last update asked the store to put
    putOutcome,          \* "none", "ok", "failed": the put of the last update
    tipRequests,         \* completion requests the last update issued
    tipOutcome,          \* "none", "tip", "empty", "raises"
    queryOutcome,        \* "none", "ok", "failed": the query of the last update
    replies,             \* the messages the last update sent to the user
    httpResult,          \* what lambda_handler gave back for the last update
    invocationError,     \* "none", or where the last invocation raised:
                         \* "setup", "entry" or "handler"
    chart                \* the chart the last update generated, <<>> if none

pgOne == <<rows, serverCap, boundaryCursor, pgOp, pgLimit, pgFilter, pgIndex,
           pgPc, exclusive_start_key, response, pgIdx, yielded, requests>>

pgVars == <<pgOne, calls, started>>

(***************************************************************************)
(* The store's side of table.query / table.scan.  An item is identified    *)
(* by the position of its row.  A request evaluates at most Limit rows     *)
(* (at most serverCap rows anyway), returns those that pass the filter,    *)
(* and names the last evaluated row as LastEvaluatedKey when rows remain.  *)
(***************************************************************************)
StartOf(args) == IF "ExclusiveStartKey" \in DOMAIN args
                 THEN args.ExclusiveStartKey[1] ELSE 0

PageSizeOf(args) == IF "Limit" \in DOMAIN args
                    THEN Min(args.Limit, serverCap) ELSE serverCap

LastOf(args) == Min(StartOf(args) + PageSizeOf(args), Len(rows))

Passes(args, p) == "FilterExpression" \notin DOMAIN args \/ rows[p].match

ItemsOf(args) ==
    LET RECURSIVE Collect(_)
        Collect(p) == IF p > LastOf(args) THEN <<>>
                      ELSE IF Passes(args, p) THEN <<p>> \o Collect(p + 1)
                      ELSE Collect(p + 1)
    IN Collect(StartOf(args) + 1)

MoreAfter(args) ==
    \/ LastOf(args) < Len(rows)
    \/ /\ boundaryCursor
       /\ LastOf(args) = Len(rows)
       /\ LastOf(args) - StartOf(args) = PageSizeOf(args)

StoreRespond(args) ==
    IF MoreAfter(args)
    THEN [Items |-> ItemsOf(args), LastEvaluatedKey |-> <<LastOf(args)>>]
    ELSE [Items |-> ItemsOf(args)]

(***************************************************************************)
(* AsyncDynamoDBClient.query / scan                                        *)
(***************************************************************************)
\* mutant: the limit is sent with the first request only
RequestArgsLimitOnce(op, key, limit, filter, index) ==
    LET base == IF op = "query"
                THEN [KeyConditionExpression |-> "kc",
                      ExpressionAttributeValues |-> "eav",
                      ScanIndexForward |-> TRUE]
                ELSE [ProjectionExpression |-> "userId"]
        withIndex == IF index THEN base @@ [IndexName |-> "index"] ELSE base
        withFilter == IF filter
                      THEN withIndex @@ [FilterExpression |-> "fe"]
                      ELSE withIndex
    IN IF TruthyDict(key) THEN withFilter @@ [ExclusiveStartKey |-> key]
       ELSE IF TruthyInt(limit) THEN withFilter @@ [Limit |-> limit]
       ELSE withFilter

\* the keyword arguments of one table.query(**query_args) / table.scan(**scan_args)
RequestArgs(op, key, limit, filter, index) ==
    LET base == IF op = "query"
                THEN [KeyConditionExpression |-> "kc",
                      ExpressionAttributeValues |-> "eav",
                      ScanIndexForward |-> TRUE]
                ELSE [ProjectionExpression |-> "userId"]
        withKey == IF TruthyDict(key)
                   THEN base @@ [ExclusiveStartKey |-> key] ELSE base
        withIndex == IF index
                     THEN withKey @@ [IndexName |-> "index"] ELSE withKey
        withFilter == IF filter
                      THEN withIndex @@ [FilterExpression |-> "fe"]
                      ELSE withIndex
    IN IF TruthyInt(limit) THEN withFilter @@ [Limit |-> limit] ELSE withFilter

\* mutant: the items of a page are cut to what is left of the limit
PageItemsCutAtLimit(resp) ==
    LET items == Get(resp, "Items", <<>>)
    IN IF TruthyInt(pgLimit)
       THEN SubSeq(items, 1, Min(Len(items), Max(0, pgLimit - Len(yielded))))
       ELSE items

\* for item in response.get("Items", [])
PageItems(resp) == Get(resp, "Items", <<>>)

\* mutant: an empty page ends the sequence
NextStartKeyStopOnEmptyPage(resp) ==
    IF Get(resp, "Items", <<>>) = <<>> THEN <<>>
    ELSE Get(resp, "LastEvaluatedKey", <<>>)

\* mutant: the cursor taken is the one the request was made with, or the
\* first page's when it was made with none
NextStartKeyStale(resp) ==
    IF "LastEvaluatedKey" \notin DOMAIN resp THEN <<>>
    ELSE IF TruthyDict(exclusive_start_key) THEN exclusive_start_key
    ELSE resp.LastEvaluatedKey

\* exclusive_start_key = response.get("LastEvaluatedKey", {})
NextStartKey(resp) == Get(resp, "LastEvaluatedKey", <<>>)

\* mutant: the loop over a page ends one item early
PageExhaustedBeforeLast(resp, idx) == idx >= Len(PageItems(resp))

\* the for loop over the items of the page has run out
PageExhausted(resp, idx) == idx > Len(PageItems(resp))

\* response = await table.query(**query_args): the store answers
PgRequest ==
    /\ pgPc = "request"
    /\ LET args == RequestArgs(pgOp, exclusive_start_key, pgLimit, pgFilter, pgIndex)
       IN /\ requests' = Append(requests, args)
          /\ response' = StoreRespond(args)
    /\ pgIdx' = 1
    /\ pgPc' = "page"
    /\ UNCHANGED <<calls, started>>
    /\ UNCHANGED <<rows, serverCap, boundaryCursor, pgOp, pgLimit, pgFilter,
                   pgIndex,
                   exclusive_start_key, yielded>>

\* response = await table.query(**query_args): the store raises
PgRequestRaises ==
    /\ pgPc = "request"
    /\ requests' = Append(requests,
           RequestArgs(pgOp, exclusive_start_key, pgLimit, pgFilter, pgIndex))
    /\ pgPc' = "raised"
    /\ UNCHANGED <<calls, started>>
    /\ UNCHANGED <<rows, serverCap, boundaryCursor, pgOp, pgLimit, pgFilter,
                   pgIndex,
                   exclusive_start_key, response, pgIdx, yielded>>

\* yield item
PgYield ==
    /\ pgPc = "page"
    /\ ~PageExhausted(response, pgIdx)
    /\ yielded' = Append(yielded, PageItems(response)[pgIdx])
    /\ pgIdx' = pgIdx + 1
    /\ UNCHANGED <<calls, started>>
    /\ UNCHANGED <<rows, serverCap, boundaryCursor, pgOp, pgLimit, pgFilter,
                   pgIndex,
                   pgPc, exclusive_start_key, response, requests>>

\* the page is exhausted: take the cursor, break when it is empty
PgAdvance ==
    /\ pgPc = "page"
    /\ PageExhausted(response, pgIdx)
    /\ exclusive_start_key' = NextStartKey(response)
    /\ pgPc' = IF ~TruthyDict(exclusive_start_key') THEN "done" ELSE "request"
    /\ UNCHANGED <<calls, started>>
    /\ UNCHANGED <<rows, serverCap, boundaryCursor, pgOp, pgLimit, pgFilter,
                   pgIndex,
                   response, pgIdx, yielded, requests>>

\* the consumer stops iterating: the suspended generator is closed
PgClose ==
    /\ pgPc \in {"request", "page"}
    /\ pgPc' = "closed"
    /\ UNCHANGED <<calls, started>>
    /\ UNCHANGED <<rows, serverCap, boundaryCursor, pgOp, pgLimit, pgFilter,
                   pgIndex,
                   exclusive_start_key, response, pgIdx, yielded, requests>>

(***************************************************************************)
(* Several calls of query / scan on one client.  Each call is a generator  *)
(* of its own: a call slot holds the arguments and the local variables of  *)
(* the call running in it.                                                 *)
(***************************************************************************)
\* the call slots: at most two calls are being consumed at a time
Calls == {1, 2}

\* a slot no call has run in
IdleCall == [pc |-> "none", op |-> "query", limit |-> None, filter |-> FALSE,
             exclusive_start_key |-> <<>>, response |-> <<>>, idx |-> 1,
             yielded |-> <<>>, requests |-> <<>>]

\* mutant: the cursor is kept in one place for all calls of the client
CursorFrameOfClient(c) == 1

\* where the call in slot c keeps exclusive_start_key: in its own frame
\* (the client object has no attribute but table_name)
CursorFrame(c) == c

\* a call is made: exclusive_start_key = {}.  A query is given a limit and
\* a scan none, which makes the pages of the two differ.
CallStart(c) ==
    /\ started < MaxCalls
    /\ calls[c].pc \in {"none", "done", "closed"}
    /\ \E op \in {"query", "scan"}, filter \in BOOLEAN :
          LET limit == IF op = "query" THEN 1 ELSE None
          IN calls' = [calls EXCEPT
                      ![c] = [IdleCall EXCEPT !.pc = "request", !.op = op,
                                              !.limit = limit,
                                              !.filter = filter],
                      ![CursorFrame(c)].exclusive_start_key = <<>>]
    /\ started' = started + 1

\* response = await table.query(**query_args)
CallRequest(c) ==
    /\ calls[c].pc = "request"
    /\ LET args == RequestArgs(calls[c].op,
                               calls[CursorFrame(c)].exclusive_start_key,
                               calls[c].limit, calls[c].filter, FALSE)
       IN calls' = [calls EXCEPT ![c].requests = Append(@, args),
                                 ![c].response = StoreRespond(args),
                                 ![c].idx = 1,
                                 ![c].pc = "page"]
    /\ UNCHANGED started

\* yield item
CallYield(c) ==
    /\ calls[c].pc = "page"
    /\ ~PageExhausted(calls[c].response, calls[c].idx)
    /\ calls' = [calls EXCEPT
                   ![c].yielded = Append(@, PageItems(calls[c].response)[calls[c].idx]),
                   ![c].idx = @ + 1]
    /\ UNCHANGED started

\* the page is exhausted: take the cursor, break when it is empty
CallAdvance(c) ==
    /\ calls[c].pc = "page"
    /\ PageExhausted(calls[c].response, calls[c].idx)
    /\ LET key == NextStartKey(calls[c].response)
       IN calls' = [calls EXCEPT
                      ![CursorFrame(c)].exclusive_start_key = key,
                      ![c].pc = IF ~TruthyDict(key) THEN "done" ELSE "request"]
    /\ UNCHANGED started

\* the consumer of the call stops iterating
CallClose(c) ==
    /\ calls[c].pc \in {"request", "page"}
    /\ calls' = [calls EXCEPT ![c].pc = "closed"]
    /\ UNCHANGED started

(***************************************************************************)
(* The reminder job (bot_handler/reminders.py)                             *)
(***************************************************************************)
remVars == <<remPc, user_ids, scanRaised, taskPc, taskOutcome, appInitialized,
             clientOpen, sendIssued, delivered, remResult,
             sendCalls>>

\* the user keys the model's tables hold
RemUsers == {UserKey(1), UserKey(2), UserKey(3)}

\* the reminder job is not running
RemOff ==
    /\ remPc = "off"
    /\ user_ids = {}
    /\ scanRaised = FALSE
    /\ taskPc = [u \in RemUsers |-> "none"]
    /\ taskOutcome = [u \in RemUsers |-> "pending"]
    /\ appInitialized = FALSE
    /\ clientOpen = TRUE
    /\ sendIssued = {}
    /\ delivered = {}
    /\ remResult = <<>>
    /\ sendCalls = [u \in RemUsers |-> 0]

\* ---- get_users_with_reminders_enabled: async for ... in scan(...)

\* the scan asks the store for a page
RemScanRequest ==
    /\ remPc = "scan"
    /\ PgRequest
    /\ UNCHANGED remVars

\* user_ids.add(scanned_users_records_response["userId"])
RemScanItem ==
    /\ remPc = "scan"
    /\ PgYield
    /\ user_ids' = user_ids \cup {rows[PageItems(response)[pgIdx]].userId}
    /\ UNCHANGED <<remPc, scanRaised, taskPc, taskOutcome, appInitialized,
                   clientOpen, sendIssued, delivered, remResult,
                   sendCalls>>

\* the scan follows the cursor to the next page, or ends
RemScanAdvance ==
    /\ remPc = "scan"
    /\ PgAdvance
    /\ UNCHANGED remVars

\* mutant: a scan error discards the users collected so far
UsersAfterScanErrorNone(ids) == {}

\* except Exception as e: ... return user_ids
UsersAfterScanError(ids) == ids

\* the scan raises: the except clause of line 35 returns what was collected
RemScanRaises ==
    /\ remPc = "scan"
    /\ PgRequestRaises
    /\ scanRaised' = TRUE
    /\ user_ids' = UsersAfterScanError(user_ids)
    /\ remPc' = "users"
    /\ UNCHANGED <<taskPc, taskOutcome, appInitialized, clientOpen,
                   sendIssued, delivered, remResult,
                   sendCalls>>

\* the scan is exhausted: return user_ids
RemScanDone ==
    /\ remPc = "scan"
    /\ pgPc = "done"
    /\ remPc' = "users"
    /\ UNCHANGED <<pgVars, user_ids, scanRaised, taskPc, taskOutcome,
                   appInitialized, clientOpen, sendIssued, delivered, remResult,
                   sendCalls>>

\* ---- async_lambda_handler

\* if not users: return {"statusCode": 200, "body": "No users found"}
RemNoUsers ==
    /\ remPc = "users"
    /\ user_ids = {}
    /\ remResult' = [statusCode |-> 200, body |-> "No users found"]
    /\ remPc' = "done"
    /\ UNCHANGED <<pgVars, user_ids, scanRaised, taskPc, taskOutcome,
                   appInitialized, clientOpen, sendIssued, delivered,
                   sendCalls>>

\* mutant: the users are collected in a list, one element per scanned record
SendReminderCallsPerRecord(users) ==
    [u \in RemUsers |->
        Cardinality({i \in DOMAIN yielded : rows[yielded[i]].userId = u})]

\* [send_reminder(user_id) for user_id in users]: one call per element of
\* the set
SendReminderCalls(users) ==
    [u \in RemUsers |-> IF u \in users THEN 1 ELSE 0]

\* asyncio.gather(*[send_reminder(user_id) for user_id in users])
RemGather ==
    /\ remPc = "users"
    /\ user_ids # {}
    /\ sendCalls' = SendReminderCalls(user_ids)
    /\ taskPc' = [u \in RemUsers |-> IF sendCalls'[u] > 0 THEN "start"
                                     ELSE "none"]
    /\ remPc' = "gather"
    /\ UNCHANGED <<pgVars, user_ids, scanRaised, taskOutcome, appInitialized,
                   clientOpen, sendIssued, delivered, remResult>>

\* ---- send_reminder(user_id), one task per user, all on the one module-level
\* application.  "async with application" awaits application.initialize() on
\* entry and application.shutdown() on exit.  initialize() awaits the bot's
\* get_me request, so the other tasks run while a task is entering; a task
\* runs without interruption from one awaited network reply to the next.

\* telegram_id = int(user_id.split("_")[1])
TelegramId(user_id) == user_id[2]

\* except (ValueError, IndexError, TelegramError)
Caught(exc) == exc \in {"ValueError", "IndexError", "TelegramError"}

\* application.shutdown(): a no-op unless the application is initialized;
\* otherwise the bot's HTTP client is closed
Shutdown ==
    /\ appInitialized' = FALSE
    /\ clientOpen' = IF appInitialized THEN FALSE ELSE clientOpen

\* gather has started every task before any awaited reply arrives
AllEntered == \A u \in user_ids : taskPc[u] # "start"

\* bot.send_message(...) is called: the request goes out on an open client;
\* a client that was closed meanwhile raises RuntimeError
IssueSend(u) ==
    IF clientOpen
    THEN /\ TelegramId(u) \in Int
         /\ sendIssued' = sendIssued \cup {u}
         /\ taskPc' = [taskPc EXCEPT ![u] = "sending"]
         /\ UNCHANGED taskOutcome
    ELSE /\ taskOutcome' = [taskOutcome EXCEPT ![u] = "RuntimeError"]
         /\ taskPc' = [taskPc EXCEPT ![u] = "sent"]
         /\ UNCHANGED sendIssued

\* async with application: entry.  An initialized application returns at
\* once and the send follows; otherwise a closed client is rebuilt and
\* get_me is awaited.
RemEnter(u) ==
    /\ remPc = "gather"
    /\ taskPc[u] = "start"
    /\ IF appInitialized
       THEN /\ IssueSend(u)
            /\ UNCHANGED clientOpen
       ELSE /\ taskPc' = [taskPc EXCEPT ![u] = "init"]
            /\ clientOpen' = TRUE
            /\ UNCHANGED <<taskOutcome, sendIssued>>
    /\ UNCHANGED <<pgVars, remPc, user_ids, scanRaised, appInitialized,
                   delivered, remResult,
                   sendCalls>>

\* get_me returns: the application is initialized and the send follows
RemInitDone(u) ==
    /\ remPc = "gather"
    /\ AllEntered
    /\ taskPc[u] = "init"
    /\ appInitialized' = TRUE
    /\ IssueSend(u)
    /\ UNCHANGED <<pgVars, remPc, user_ids, scanRaised, clientOpen,
                   delivered, remResult,
                   sendCalls>>

\* get_me fails with a TelegramError: __aenter__ shuts down and re-raises
RemInitFails(u) ==
    /\ remPc = "gather"
    /\ AllEntered
    /\ taskPc[u] = "init"
    /\ Shutdown
    /\ taskOutcome' = [taskOutcome EXCEPT ![u] = "TelegramError"]
    /\ taskPc' = [taskPc EXCEPT ![u] = "done"]
    /\ UNCHANGED <<pgVars, remPc, user_ids, scanRaised, sendIssued,
                   delivered, remResult,
                   sendCalls>>

\* await bot.send_message(...): the chat platform accepted the message
RemSendOk(u) ==
    /\ remPc = "gather"
    /\ taskPc[u] = "sending"
    /\ delivered' = delivered \cup {u}
    /\ taskOutcome' = [taskOutcome EXCEPT ![u] = "ok"]
    /\ taskPc' = [taskPc EXCEPT ![u] = "sent"]
    /\ UNCHANGED <<pgVars, remPc, user_ids, scanRaised, appInitialized,
                   clientOpen, sendIssued, remResult,
                   sendCalls>>

\* await bot.send_message(...): the send failed with a TelegramError
RemSendFails(u) ==
    /\ remPc = "gather"
    /\ taskPc[u] = "sending"
    /\ taskOutcome' = [taskOutcome EXCEPT ![u] = "TelegramError"]
    /\ taskPc' = [taskPc EXCEPT ![u] = "sent"]
    /\ UNCHANGED <<pgVars, remPc, user_ids, scanRaised, appInitialized,
                   clientOpen, sendIssued, delivered, remResult,
                   sendCalls>>

\* async with application: exit (also when the body raised), then
\* return True, or the except clause, or the exception leaves the task
RemExit(u) ==
    /\ remPc = "gather"
    /\ taskPc[u] = "sent"
    /\ Shutdown
    /\ taskPc' = [taskPc EXCEPT ![u] = "done"]
    /\ UNCHANGED <<pgVars, remPc, user_ids, scanRaised, taskOutcome,
                   sendIssued, delivered, remResult,
                   sendCalls>>

\* what the finished task of u handed to gather
Returned(u) == IF taskOutcome[u] = "ok" THEN "True"
               ELSE IF Caught(taskOutcome[u]) THEN "False"
               ELSE "raised"

\* success_count = sum(results)
SuccessCount == Cardinality({u \in user_ids : Returned(u) = "True"})

\* every task returned: {"statusCode": 200, "body": f"Sent {success_count} reminders"}
RemGatherDone ==
    /\ remPc = "gather"
    /\ \A u \in user_ids : taskPc[u] = "done" /\ Returned(u) # "raised"
    /\ remResult' = [statusCode |-> 200, body |-> "Sent reminders",
                     count |-> SuccessCount]
    /\ remPc' = "done"
    /\ UNCHANGED <<pgVars, user_ids, scanRaised, taskPc, taskOutcome,
                   appInitialized, clientOpen, sendIssued, delivered,
                   sendCalls>>

\* a task raised: gather re-raises at once and line 81 catches it; asyncio.run
\* then cancels the tasks still pending
RemGatherRaises ==
    /\ remPc = "gather"
    /\ \E u \in user_ids : taskPc[u] = "done" /\ Returned(u) = "raised"
    /\ remResult' = [statusCode |-> 500, body |-> "Internal Server Error"]
    /\ remPc' = "done"
    /\ UNCHANGED <<pgVars, user_ids, scanRaised, taskPc, taskOutcome,
                   appInitialized, clientOpen, sendIssued, delivered,
                   sendCalls>>


(***************************************************************************)
(* The webhook: texts and keys (bot_handler/webhook.py, shared/constants.py)*)
(***************************************************************************)
convVars == <<convState, selectedMood, user_data, table, logged, loopClock,
              container, updates, lastHandler, lastCopy, lastUpdate, putLog,
              putOutcome, tipRequests, tipOutcome, queryOutcome, replies,
              httpResult, invocationError, chart>>

\* the button and reply texts (their emoji left out)
LOG_MOOD_TEXT == "Log Mood"

MOOD_HISTORY_TEXT == "Mood History"

WELCOME_TEXT == "Welcome to Equilibrium!"

ASK_MOOD_TEXT == "How are you feeling today?"

SAVE_MOOD_FAILURE_TEXT == "Failed to save mood. Please try again."

CANCEL_CONVERSATION_TEXT == "Conversation canceled. Goodbye!"

END_CONVERSATION_TEXT == "What would you like to do next?"

MOOD_HISTORY_NOT_FOUND_TEXT == "No mood history found. Start tracking with /logmood"

MOOD_HISTORY_LAST_30_DAYS_TEXT == "Your Mood History (Last 30 days)"

MOOD_HISTORY_GENERATION_FAILURE_TEXT == "Failed to generate history. Please try again."

\* Limit=30 of get_mood_history
HISTORY_LIMIT == 30

\* ---- characters, as code points, of the strings the sort key is built from
DOT == 46

ZERO == 48

\* the decimal digits of a natural number, as characters
RECURSIVE DigitChars(_)
DigitChars(n) == IF n < 10 THEN <<ZERO + n>>
                 ELSE DigitChars(n \div 10) \o <<ZERO + (n % 10)>>

\* str(t) of a float t with no fractional part: "12.0"
FloatStr(t) == DigitChars(t) \o <<DOT, ZERO>>

\* float(s) of such a string
FloatOf(s) ==
    LET RECURSIVE Fold(_, _)
        Fold(i, acc) == IF i > Len(s) \/ s[i] = DOT THEN acc
                        ELSE Fold(i + 1, 10 * acc + (s[i] - ZERO))
    IN Fold(1, 0)

\* a < b for strings, as the store orders sort keys (by code point)
RECURSIVE StrLess(_, _)
StrLess(a, b) == IF a = <<>> THEN b # <<>>
                 ELSE IF b = <<>> THEN FALSE
                 ELSE IF a[1] # b[1] THEN a[1] < b[1]
                 ELSE StrLess(Tail(a), Tail(b))

\* the store's order of two "mood#..." sort keys
SkLess(a, b) == StrLess(a[2], b[2])

\* f"mood#{asyncio.get_event_loop().time()}": the parts a split("#") gives
SortKey(t) == <<"mood", FloatStr(t)>>

\* float(x['sk'].split('#')[1])
ParseTimestamp(sk) == FloatOf(sk[2])

\* int(entry['moodValue'])
IntOfStr(str) == CHOOSE i \in 0..9 :
                    <<"0", "1", "2", "3", "4", "5", "6", "7", "8", "9">>[i + 1] = str

(***************************************************************************)
(* The store's side of table.put_item and of the query of get_mood_history *)
(***************************************************************************)
\* put_item: the item replaces the item of the same key, or is inserted
\* at its place in sort-key order
RECURSIVE StorePut(_, _)
StorePut(tbl, item) ==
    IF tbl = <<>> THEN <<item>>
    ELSE IF tbl[1].sk = item.sk THEN <<item>> \o Tail(tbl)
    ELSE IF SkLess(item.sk, tbl[1].sk) THEN <<item>> \o tbl
    ELSE <<tbl[1]>> \o StorePut(Tail(tbl), item)

Reverse(s) == [i \in 1..Len(s) |-> s[Len(s) + 1 - i]]

\* one page of a query on userId = uid AND begins_with(sk, "mood#"),
\* ScanIndexForward=False, Limit=limit
StoreQueryNewestFirst(tbl, uid, limit) ==
    LET hits == SelectSeq(tbl, LAMBDA it : it.userId = uid /\ it.sk[1] = "mood")
        n == Len(hits)
    IN Reverse(SubSeq(hits, n - Min(limit, n) + 1, n))

(***************************************************************************)
(* Mood history (bot_handler/mood_history.py)                              *)
(***************************************************************************)
\* get_mood_history: response.get("Items", []) of the one query
GetMoodHistory(user_key) == StoreQueryNewestFirst(table, user_key, HISTORY_LIMIT)

\* mutant: the entries are charted in the order they arrive in
SortedAsReceived(mood_data) == mood_data

\* sorted(mood_data, key=lambda x: float(x['sk'].split('#')[1])), stable
RECURSIVE SortedByTimestamp(_)
SortedByTimestamp(mood_data) ==
    LET RECURSIVE Insert(_, _)
        Insert(x, s) ==
            IF s = <<>> THEN <<x>>
            ELSE IF ParseTimestamp(x.sk) < ParseTimestamp(s[1].sk)
                 THEN <<x>> \o s
                 ELSE <<s[1]>> \o Insert(x, Tail(s))
    IN IF mood_data = <<>> THEN <<>>
       ELSE Insert(mood_data[Len(mood_data)],
                   SortedByTimestamp(SubSeq(mood_data, 1, Len(mood_data) - 1)))

\* generate_mood_chart: the x and y values handed to plt.plot, and the
\* entries they are taken from
GenerateMoodChart(mood_data) ==
    LET sorted_data == SortedByTimestamp(mood_data)
    IN [timestamps |-> [i \in 1..Len(sorted_data) |->
                            ParseTimestamp(sorted_data[i].sk)],
        mood_values |-> [i \in 1..Len(sorted_data) |->
                            IntOfStr(sorted_data[i].moodValue)],
        entries |-> sorted_data]

\* mutant: an empty history is charted like any other
HistoryIsEmptyNever(moods) == FALSE

\* if not moods
HistoryIsEmpty(moods) == moods = <<>>

\* show_history's effect on the outputs of the update
ShowHistory(user_id, queryOk) ==
    LET moods == GetMoodHistory(UserKey(user_id))
    IN IF ~queryOk
       THEN /\ queryOutcome' = "failed"
            /\ chart' = <<>>
            /\ replies' = <<[method |-> "reply_text",
                             text |-> <<MOOD_HISTORY_GENERATION_FAILURE_TEXT>>]>>
       ELSE IF HistoryIsEmpty(moods)
       THEN /\ queryOutcome' = "ok"
            /\ chart' = <<>>
            /\ replies' = <<[method |-> "reply_text",
                             text |-> <<MOOD_HISTORY_NOT_FOUND_TEXT>>]>>
       ELSE /\ queryOutcome' = "ok"
            /\ chart' = GenerateMoodChart(moods)
            /\ replies' = <<[method |-> "reply_photo",
                             text |-> <<MOOD_HISTORY_LAST_30_DAYS_TEXT>>]>>

(***************************************************************************)
(* The mood-logging conversation (bot_handler/webhook.py)                  *)
(***************************************************************************)
\* the one user of the model
USER_ID == 1

\* what the user can send: texts, the data of the buttons of any message the
\* bot has sent so far, and "6", a data none of its buttons carries
Texts == {LOG_MOOD_TEXT, MOOD_HISTORY_TEXT, "/start", "/cancel",
          "Great workout today!"}

CallbackData == {"2", "4", "6", "skip_notes"}

Updates == [type : {"message"}, text : Texts]
           \cup [type : {"callback_query"}, data : CallbackData]

\* the command of a text that is a bot command, "" for any other text
CommandOf(text) == CASE text = "/start" -> "start"
                     [] text = "/cancel" -> "cancel"
                     [] OTHER -> ""

IsMessage(upd) == upd.type = "message"

IsCallback(upd) == upd.type = "callback_query"

\* filters.TEXT & ~filters.COMMAND
IsTextNotCommand(upd) == IsMessage(upd) /\ CommandOf(upd.text) = ""

\* mutant: any text is taken as notes, commands too
IsNotesTextAny(upd) == IsMessage(upd)

\* MessageHandler(filters.TEXT & ~filters.COMMAND, save_notes)
IsNotesText(upd) == IsTextNotCommand(upd)

\* pattern="^[1-5]$"
IsMoodData(data) == data \in {"1", "2", "3", "4", "5"}

\* fallbacks=[CommandHandler("cancel", cancel)]
Fallback(upd) ==
    IF IsMessage(upd) /\ CommandOf(upd.text) = "cancel" THEN "cancel" ELSE "none"

\* the ConversationHandler: entry points when no conversation is in course,
\* else the handlers of the state, then the fallbacks
ConversationHandlerFor(upd, state) ==
    CASE state = "IDLE" ->
            IF IsMessage(upd) /\ upd.text = LOG_MOOD_TEXT
            THEN "log_mood_start" ELSE "none"
      [] state = "ASK_MOOD" ->
            IF IsCallback(upd) /\ IsMoodData(upd.data)
            THEN "mood_selected" ELSE Fallback(upd)
      [] state = "ASK_NOTES" ->
            IF IsNotesText(upd) THEN "save_notes"
            ELSE IF IsCallback(upd) /\ upd.data = "skip_notes" THEN "skip_notes"
            ELSE Fallback(upd)

\* lambda_handler: every invocation calls setup_handlers(), which adds one
\* more start handler, history handler and ConversationHandler to the
\* application of the module; a new ConversationHandler has no conversation
Registered(states) == Append(states, "IDLE")

\* the ConversationHandlers that accept the update
Accepting(upd, states) ==
    {k \in DOMAIN states : ConversationHandlerFor(upd, states[k]) # "none"}

\* Application.process_update: the first handler, in the order added, that
\* accepts the update handles it, and no other one does
HandlerFor(upd, states) ==
    IF IsMessage(upd) /\ CommandOf(upd.text) = "start"
    THEN [handler |-> "start", copy |-> 0]
    ELSE IF IsMessage(upd) /\ upd.text = MOOD_HISTORY_TEXT
    THEN [handler |-> "show_history", copy |-> 0]
    ELSE IF Accepting(upd, states) = {}
    THEN [handler |-> "none", copy |-> 0]
    ELSE LET k == CHOOSE i \in Accepting(upd, states) :
                      \A j \in Accepting(upd, states) : i <= j
         IN [handler |-> ConversationHandlerFor(upd, states[k]), copy |-> k]

\* the Item of log_mood_to_dynamodb
MoodItem(user_id, mood, notes) ==
    [userId |-> UserKey(user_id), sk |-> SortKey(loopClock),
     moodValue |-> mood, notes |-> notes, type |-> "mood"]

\* get_ai_tip: the completion's text, "" when the request fails
GetAiTip(outcome) == CASE outcome = "tip" -> "Take a short walk."
                       [] outcome = "empty" -> ""
                       [] outcome = "raises" -> ""

\* mutant: a confirmation that names the missing tip
ConfirmationTextTipFailure(mood, tip) ==
    <<"Mood ", mood, " logged!">>
    \o (IF tip # "" THEN <<"AI Tip: ", tip>>
        ELSE <<"Couldn't fetch a tip. Try again later.">>)

\* response = f"Mood {mood} logged!", plus the tip line if tip
ConfirmationText(mood, tip) ==
    <<"Mood ", mood, " logged!">>
    \o (IF tip # "" THEN <<"AI Tip: ", tip>> ELSE <<>>)

\* mutant: the tip is asked for whether or not the put succeeded
TipRequestedAlways(putOk) == TRUE

\* the tip request of save_notes / skip_notes is reached only past the
\* return of the except clause
TipRequested(putOk) == putOk

\* return {"statusCode": 200, "body": "OK"}
OK_RESULT == [statusCode |-> 200, body |-> "OK"]

\* return {"statusCode": 500, "body": "Internal Server Error"}
ERROR_RESULT == [statusCode |-> 500, body |-> "Internal Server Error"]

\* an exception left lambda_handler: the runtime reports the invocation as
\* failed, with the exception in place of a result
UNHANDLED == [errorType |-> "Exception"]

\* how the invocation ended
Answered(result, error) ==
    /\ httpResult' = result
    /\ invocationError' = error

\* the outputs of an update that neither writes nor asks for a tip nor queries
Plain(handler, copy, upd, sent) ==
    /\ lastHandler' = handler
    /\ lastCopy' = copy
    /\ lastUpdate' = upd
    /\ putLog' = <<>>
    /\ putOutcome' = "none"
    /\ tipRequests' = 0
    /\ tipOutcome' = "none"
    /\ queryOutcome' = "none"
    /\ replies' = sent
    /\ chart' = <<>>

\* start
ConvStart ==
    \E upd \in Updates :
        LET states == Registered(convState)
            d == HandlerFor(upd, states)
        IN /\ updates < MaxUpdates
           /\ d.handler = "start"
           /\ Plain("start", d.copy, upd,
                    <<[method |-> "reply_text", text |-> <<WELCOME_TEXT>>]>>)
           /\ convState' = states
           /\ selectedMood' = Append(selectedMood, "")
           /\ updates' = updates + 1
           /\ Answered(OK_RESULT, "none")
           /\ UNCHANGED <<user_data, table, logged, loopClock, container>>

\* show_history, from the main menu or in the middle of a conversation
ConvShowHistory ==
    \E upd \in Updates, queryOk \in BOOLEAN :
        LET states == Registered(convState)
            d == HandlerFor(upd, states)
        IN /\ updates < MaxUpdates
           /\ d.handler = "show_history"
           /\ ShowHistory(USER_ID, queryOk)
           /\ lastHandler' = "show_history"
           /\ lastCopy' = d.copy
           /\ lastUpdate' = upd
           /\ putLog' = <<>>
           /\ putOutcome' = "none"
           /\ tipRequests' = 0
           /\ tipOutcome' = "none"
           /\ convState' = states
           /\ selectedMood' = Append(selectedMood, "")
           /\ updates' = updates + 1
           /\ Answered(OK_RESULT, "none")
           /\ UNCHANGED <<user_data, table, logged, loopClock, container>>

\* log_mood_start: IDLE -> ASK_MOOD
ConvLogMoodStart ==
    \E upd \in Updates :
        LET states == Registered(convState)
            d == HandlerFor(upd, states)
        IN /\ updates < MaxUpdates
           /\ d.handler = "log_mood_start"
           /\ Plain("log_mood_start", d.copy, upd,
                    <<[method |-> "reply_text", text |-> <<ASK_MOOD_TEXT>>]>>)
           /\ convState' = [states EXCEPT ![d.copy] = "ASK_MOOD"]
           /\ selectedMood' =
                 [Append(selectedMood, "") EXCEPT ![d.copy] = ""]
           /\ updates' = updates + 1
           /\ Answered(OK_RESULT, "none")
           /\ UNCHANGED <<user_data, table, logged, loopClock, container>>

\* mood_selected: ASK_MOOD -> ASK_NOTES
ConvMoodSelected ==
    \E upd \in Updates :
        LET states == Registered(convState)
            d == HandlerFor(upd, states)
        IN /\ updates < MaxUpdates
           /\ d.handler = "mood_selected"
           /\ user_data' = [mood |-> upd.data]
           /\ Plain("mood_selected", d.copy, upd,
                    <<[method |-> "edit_message_text",
                       text |-> <<"Selected mood: ", upd.data,
                                  "/5 Want to add any notes?">>]>>)
           /\ convState' = [states EXCEPT ![d.copy] = "ASK_NOTES"]
           /\ selectedMood' =
                 [Append(selectedMood, "") EXCEPT ![d.copy] = upd.data]
           /\ updates' = updates + 1
           /\ Answered(OK_RESULT, "none")
           /\ UNCHANGED <<table, logged, loopClock, container>>

\* the body save_notes and skip_notes share: the put, then the tip, then the
\* confirmation and the main menu; method is how the handler answers
SaveMood(mood, notes, method, putOk, tip) ==
    LET item == MoodItem(USER_ID, mood, notes)
    IN /\ putLog' = <<item>>
       /\ loopClock' = loopClock + 1
       /\ queryOutcome' = "none"
       /\ chart' = <<>>
       /\ tipRequests' = IF TipRequested(putOk) THEN 1 ELSE 0
       /\ tipOutcome' = IF TipRequested(putOk) THEN tip ELSE "none"
       /\ IF putOk
          THEN /\ putOutcome' = "ok"
               /\ table' = StorePut(table, item)
               /\ logged' = Append(logged, item)
               /\ replies' =
                    <<[method |-> method,
                       text |-> ConfirmationText(mood, GetAiTip(tip))],
                      [method |-> "reply_text",
                       text |-> <<END_CONVERSATION_TEXT>>]>>
          ELSE /\ putOutcome' = "failed"
               /\ UNCHANGED <<table, logged>>
               /\ replies' = <<[method |-> method,
                                text |-> <<SAVE_MOOD_FAILURE_TEXT>>]>>

TipOutcomes == {"tip", "empty", "raises"}

\* save_notes: ASK_NOTES -> IDLE with the text of the message as notes
ConvSaveNotes ==
    \E upd \in Updates, putOk \in BOOLEAN, tip \in TipOutcomes :
        LET states == Registered(convState)
            d == HandlerFor(upd, states)
        IN /\ updates < MaxUpdates
           /\ d.handler = "save_notes"
           /\ SaveMood(user_data["mood"], upd.text, "reply_text", putOk, tip)
           /\ convState' = [states EXCEPT ![d.copy] = "IDLE"]
           /\ selectedMood' = Append(selectedMood, "")
           /\ lastHandler' = "save_notes"
           /\ lastCopy' = d.copy
           /\ lastUpdate' = upd
           /\ updates' = updates + 1
           /\ Answered(OK_RESULT, "none")
           /\ UNCHANGED <<user_data, container>>

\* skip_notes: ASK_NOTES -> IDLE with empty notes
ConvSkipNotes ==
    \E upd \in Updates, putOk \in BOOLEAN, tip \in TipOutcomes :
        LET states == Registered(convState)
            d == HandlerFor(upd, states)
        IN /\ updates < MaxUpdates
           /\ d.handler = "skip_notes"
           /\ SaveMood(user_data["mood"], "", "edit_message_text", putOk, tip)
           /\ convState' = [states EXCEPT ![d.copy] = "IDLE"]
           /\ selectedMood' = Append(selectedMood, "")
           /\ lastHandler' = "skip_notes"
           /\ lastCopy' = d.copy
           /\ lastUpdate' = upd
           /\ updates' = updates + 1
           /\ Answered(OK_RESULT, "none")
           /\ UNCHANGED <<user_data, container>>

\* cancel: the fallback of ASK_MOOD and ASK_NOTES
ConvCancel ==
    \E upd \in Updates :
        LET states == Registered(convState)
            d == HandlerFor(upd, states)
        IN /\ updates < MaxUpdates
           /\ d.handler = "cancel"
           /\ Plain("cancel", d.copy, upd,
                    <<[method |-> "reply_text",
                       text |-> <<CANCEL_CONVERSATION_TEXT>>]>>)
           /\ convState' = [states EXCEPT ![d.copy] = "IDLE"]
           /\ selectedMood' = Append(selectedMood, "")
           /\ updates' = updates + 1
           /\ Answered(OK_RESULT, "none")
           /\ UNCHANGED <<user_data, table, logged, loopClock, container>>

\* an update no handler accepts
ConvUnhandled ==
    \E upd \in Updates :
        LET states == Registered(convState)
            d == HandlerFor(upd, states)
        IN /\ updates < MaxUpdates
           /\ d.handler = "none"
           /\ Plain("none", d.copy, upd, <<>>)
           /\ convState' = states
           /\ selectedMood' = Append(selectedMood, "")
           /\ updates' = updates + 1
           /\ Answered(OK_RESULT, "none")
           /\ UNCHANGED <<user_data, table, logged, loopClock, container>>

\* ---- invocations that raise

\* the handlers whose first await is a request to the chat platform
\* (reply_text, or query.answer())
FirstAwaitIsTelegram ==
    {"start", "log_mood_start", "mood_selected", "skip_notes", "cancel"}

\* setup_handlers raises: its except clause logs and re-raises, and
\* lambda_handler calls it outside any try, so the exception leaves
\* lambda_handler.  The failing add_handler is taken to be the first one.
ConvSetupRaises ==
    \E upd \in Updates :
        /\ updates < MaxUpdates
        /\ Plain("none", 0, upd, <<>>)
        /\ Answered(UNHANDLED, "setup")
        /\ updates' = updates + 1
        /\ UNCHANGED <<convState, selectedMood, user_data, table, logged,
                       loopClock, container>>

\* async_handler raises before the update is dispatched (the application
\* cannot be initialized, or the body is no update): the except clause of
\* async_handler returns the 500 result
ConvEntryRaises ==
    \E upd \in Updates :
        /\ updates < MaxUpdates
        /\ Plain("none", 0, upd, <<>>)
        /\ Answered(ERROR_RESULT, "entry")
        /\ convState' = Registered(convState)
        /\ selectedMood' = Append(selectedMood, "")
        /\ updates' = updates + 1
        /\ UNCHANGED <<user_data, table, logged, loopClock, container>>

\* the first request of a handler to the chat platform raises: the handler
\* ends there, before it has changed anything; process_update catches and
\* logs the exception, the conversation keeps its state, and async_handler
\* returns the 200 result
ConvHandlerRaises ==
    \E upd \in Updates :
        LET states == Registered(convState)
            d == HandlerFor(upd, states)
        IN /\ updates < MaxUpdates
           /\ d.handler \in FirstAwaitIsTelegram
           /\ Plain(d.handler, d.copy, upd, <<>>)
           /\ Answered(OK_RESULT, "handler")
           /\ convState' = states
           /\ selectedMood' = Append(selectedMood, "")
           /\ updates' = updates + 1
           /\ UNCHANGED <<user_data, table, logged, loopClock, container>>

\* readings of time.monotonic() a container can show at its first invocation
BootClocks == {1, 2}

\* the next update reaches a fresh container: the application, its handlers,
\* conversations and user_data start empty, and the loop clock is the
\* monotonic clock of the new container
ColdStart ==
    /\ container = "c1"
    /\ container' = "c2"
    /\ loopClock' \in BootClocks
    /\ convState' = <<>>
    /\ selectedMood' = <<>>
    /\ user_data' = <<>>
    /\ Plain("cold_start", 0, <<>>, <<>>)
    /\ Answered(<<>>, "none")
    /\ UNCHANGED <<table, logged, updates>>

\* ---- the history of a user who keeps logging moods

\* a whole mood-logging conversation that ended in a successful save: the
\* button, the mood "3" and the skip.  The handlers these invocations add
\* hold no conversation once the save is done and take no part in what the
\* history shows, so they are not counted here.
HistLogMood ==
    /\ Len(logged) < MaxHistLogs
    /\ SaveMood("3", "", "edit_message_text", TRUE, "empty")
    /\ user_data' = [mood |-> "3"]
    /\ lastHandler' = "skip_notes"
    /\ lastCopy' = 1
    /\ lastUpdate' = [type |-> "callback_query", data |-> "skip_notes"]
    /\ Answered(OK_RESULT, "none")
    /\ UNCHANGED <<convState, selectedMood, updates, container>>

\* the user asks for the mood history
HistShow ==
    \E queryOk \in BOOLEAN :
        /\ ShowHistory(USER_ID, queryOk)
        /\ lastHandler' = "show_history"
        /\ lastCopy' = 0
        /\ lastUpdate' = [type |-> "message", text |-> MOOD_HISTORY_TEXT]
        /\ putLog' = <<>>
        /\ putOutcome' = "none"
        /\ tipRequests' = 0
        /\ tipOutcome' = "none"
        /\ Answered(OK_RESULT, "none")
        /\ UNCHANGED <<convState, selectedMood, updates, user_data, table,
                       logged, loopClock, container>>


(***************************************************************************)
(* Specifications                                                          *)
(***************************************************************************)
RowSeqs(users, n) ==
    UNION {[1..k -> [userId : users, match : BOOLEAN]] : k \in 0..n}

vars == <<pgVars, remVars, convVars>>

\* no call has been made in the call slots
CallsOff ==
    /\ calls = [c \in Calls |-> IdleCall]
    /\ started = 0

\* no query/scan call is in course
PgOff ==
    /\ CallsOff
    /\ rows = <<>>
    /\ serverCap = 1
    /\ boundaryCursor = FALSE
    /\ pgOp = "scan"
    /\ pgLimit = None
    /\ pgFilter = FALSE
    /\ pgIndex = FALSE
    /\ pgPc = "closed"
    /\ exclusive_start_key = <<>>
    /\ response = <<>>
    /\ pgIdx = 1
    /\ yielded = <<>>
    /\ requests = <<>>

\* the webhook after the module is loaded, with an empty table
ConvIdle ==
    /\ convState = <<>>
    /\ selectedMood = <<>>
    /\ user_data = <<>>
    /\ table = <<>>
    /\ logged = <<>>
    /\ container = "c1"
    /\ updates = 0
    /\ lastHandler = "none"
    /\ lastCopy = 0
    /\ lastUpdate = <<>>
    /\ putLog = <<>>
    /\ putOutcome = "none"
    /\ tipRequests = 0
    /\ tipOutcome = "none"
    /\ queryOutcome = "none"
    /\ replies = <<>>
    /\ httpResult = <<>>
    /\ invocationError = "none"
    /\ chart = <<>>

ConvOff == ConvIdle /\ loopClock = 1

\* ---- SpecPage: one call of query or scan, consumed item by item
PgInit ==
    /\ rows \in RowSeqs({UserKey(1)}, MaxRows)
    /\ serverCap \in 1..MaxCap
    /\ boundaryCursor \in BOOLEAN
    /\ pgOp \in {"query", "scan"}
    /\ pgLimit \in {None} \cup 0..MaxLimit
    /\ pgFilter \in BOOLEAN
    /\ pgIndex \in BOOLEAN
    /\ CallsOff
    /\ pgPc = "request"
    /\ exclusive_start_key = <<>>
    /\ response = <<>>
    /\ pgIdx = 1
    /\ yielded = <<>>
    /\ requests = <<>>
    /\ RemOff
    /\ ConvOff

PgNext ==
    \/ PgRequest /\ UNCHANGED <<remVars, convVars>>
    \/ PgRequestRaises /\ UNCHANGED <<remVars, convVars>>
    \/ PgYield /\ UNCHANGED <<remVars, convVars>>
    \/ PgAdvance /\ UNCHANGED <<remVars, convVars>>
    \/ PgClose /\ UNCHANGED <<remVars, convVars>>

SpecPage == PgInit /\ [][PgNext]_vars

\* ---- SpecPageIter: one call whose consumer keeps iterating (async for
\* without break); the event loop resumes the generator whenever it can run
\* and the store answers every request, with a page or with an error
\* The inputs are those of SpecPage that bear on the sequence of pages: no
\* index name (it is passed through unread), and rows that differ in the
\* attribute the filter reads only when there is a filter.
PgIterInit ==
    /\ PgInit
    /\ ~pgIndex
    /\ ~pgFilter => \A p \in DOMAIN rows : rows[p].match

PgIterNext ==
    \/ PgRequest /\ UNCHANGED <<remVars, convVars>>
    \/ PgRequestRaises /\ UNCHANGED <<remVars, convVars>>
    \/ PgYield /\ UNCHANGED <<remVars, convVars>>
    \/ PgAdvance /\ UNCHANGED <<remVars, convVars>>

SpecPageIter == PgIterInit /\ [][PgIterNext]_vars /\ WF_vars(PgIterNext)

\* ---- SpecCalls: calls of query and scan on one client and one table,
\* consumed in any interleaving, each to its end or until its consumer stops
\* (the store of SpecPage, without the cursor on a page that ends at the last
\* row, which changes the number of pages of a call and nothing between calls)
CallsInit ==
    /\ rows \in RowSeqs({UserKey(1)}, MaxCallRows)
    /\ serverCap \in 1..MaxCallRows
    /\ boundaryCursor = FALSE
    /\ pgOp = "scan"
    /\ pgLimit = None
    /\ pgFilter = FALSE
    /\ pgIndex = FALSE
    /\ pgPc = "closed"
    /\ exclusive_start_key = <<>>
    /\ response = <<>>
    /\ pgIdx = 1
    /\ yielded = <<>>
    /\ requests = <<>>
    /\ CallsOff
    /\ RemOff
    /\ ConvOff

CallsNext ==
    \/ \E c \in Calls : CallStart(c) /\ UNCHANGED <<pgOne, remVars, convVars>>
    \/ \E c \in Calls : CallRequest(c) /\ UNCHANGED <<pgOne, remVars, convVars>>
    \/ \E c \in Calls : CallYield(c) /\ UNCHANGED <<pgOne, remVars, convVars>>
    \/ \E c \in Calls : CallAdvance(c) /\ UNCHANGED <<pgOne, remVars, convVars>>
    \/ \E c \in Calls : CallClose(c) /\ UNCHANGED <<pgOne, remVars, convVars>>

SpecCalls == CallsInit /\ [][CallsNext]_vars

\* ---- SpecRem: one invocation of the reminder job
RemInit ==
    /\ rows \in RowSeqs(RemUsers, MaxRemRows)
    /\ serverCap \in 1..MaxCap
    /\ boundaryCursor \in BOOLEAN
    /\ pgOp = "scan"
    /\ pgLimit = None
    /\ pgFilter = TRUE
    /\ pgIndex = FALSE
    /\ CallsOff
    /\ pgPc = "request"
    /\ exclusive_start_key = <<>>
    /\ response = <<>>
    /\ pgIdx = 1
    /\ yielded = <<>>
    /\ requests = <<>>
    /\ remPc = "scan"
    /\ user_ids = {}
    /\ scanRaised = FALSE
    /\ taskPc = [u \in RemUsers |-> "none"]
    /\ taskOutcome = [u \in RemUsers |-> "pending"]
    /\ appInitialized = FALSE
    /\ clientOpen = TRUE
    /\ sendIssued = {}
    /\ delivered = {}
    /\ remResult = <<>>
    /\ sendCalls = [u \in RemUsers |-> 0]
    /\ ConvOff

RemNext ==
    \/ RemScanRequest /\ UNCHANGED convVars
    \/ RemScanItem /\ UNCHANGED convVars
    \/ RemScanAdvance /\ UNCHANGED convVars
    \/ RemScanRaises /\ UNCHANGED convVars
    \/ RemScanDone /\ UNCHANGED convVars
    \/ RemNoUsers /\ UNCHANGED convVars
    \/ RemGather /\ UNCHANGED convVars
    \/ \E u \in RemUsers : RemEnter(u) /\ UNCHANGED convVars
    \/ \E u \in RemUsers : RemInitDone(u) /\ UNCHANGED convVars
    \/ \E u \in RemUsers : RemInitFails(u) /\ UNCHANGED convVars
    \/ \E u \in RemUsers : RemSendOk(u) /\ UNCHANGED convVars
    \/ \E u \in RemUsers : RemSendFails(u) /\ UNCHANGED convVars
    \/ \E u \in RemUsers : RemExit(u) /\ UNCHANGED convVars
    \/ RemGatherDone /\ UNCHANGED convVars
    \/ RemGatherRaises /\ UNCHANGED convVars

SpecRem == RemInit /\ [][RemNext]_vars

\* ---- SpecConv: the updates of one user, dispatched by setup_handlers
ConvInit ==
    /\ ConvIdle
    /\ loopClock \in BootClocks
    /\ PgOff
    /\ RemOff

ConvNext ==
    \/ ConvStart /\ UNCHANGED <<pgVars, remVars>>
    \/ ConvShowHistory /\ UNCHANGED <<pgVars, remVars>>
    \/ ConvLogMoodStart /\ UNCHANGED <<pgVars, remVars>>
    \/ ConvMoodSelected /\ UNCHANGED <<pgVars, remVars>>
    \/ ConvSaveNotes /\ UNCHANGED <<pgVars, remVars>>
    \/ ConvSkipNotes /\ UNCHANGED <<pgVars, remVars>>
    \/ ConvCancel /\ UNCHANGED <<pgVars, remVars>>
    \/ ConvUnhandled /\ UNCHANGED <<pgVars, remVars>>
    \/ ColdStart /\ UNCHANGED <<pgVars, remVars>>

SpecConv == ConvInit /\ [][ConvNext]_vars

\* ---- SpecEntry: the same updates, with invocations that raise
EntryNext ==
    \/ ConvStart /\ UNCHANGED <<pgVars, remVars>>
    \/ ConvShowHistory /\ UNCHANGED <<pgVars, remVars>>
    \/ ConvLogMoodStart /\ UNCHANGED <<pgVars, remVars>>
    \/ ConvMoodSelected /\ UNCHANGED <<pgVars, remVars>>
    \/ ConvSaveNotes /\ UNCHANGED <<pgVars, remVars>>
    \/ ConvSkipNotes /\ UNCHANGED <<pgVars, remVars>>
    \/ ConvCancel /\ UNCHANGED <<pgVars, remVars>>
    \/ ConvUnhandled /\ UNCHANGED <<pgVars, remVars>>
    \/ ColdStart /\ UNCHANGED <<pgVars, remVars>>
    \/ ConvSetupRaises /\ UNCHANGED <<pgVars, remVars>>
    \/ ConvEntryRaises /\ UNCHANGED <<pgVars, remVars>>
    \/ ConvHandlerRaises /\ UNCHANGED <<pgVars, remVars>>

SpecEntry == ConvInit /\ [][EntryNext]_vars

\* ---- SpecHist: the user logs moods and asks for the history
HistNext ==
    \/ HistLogMood /\ UNCHANGED <<pgVars, remVars>>
    \/ HistShow /\ UNCHANGED <<pgVars, remVars>>
    \/ ColdStart /\ UNCHANGED <<pgVars, remVars>>

SpecHist == ConvInit /\ [][HistNext]_vars

(***************************************************************************)
(* What the store holds for the call, stated without reference to paging.  *)
(***************************************************************************)
IsPrefix(s, t) == Len(s) <= Len(t) /\ s = SubSeq(t, 1, Len(s))

\* the result set in store order: every row, or every row passing the filter
ResultSet ==
    LET RECURSIVE Matching(_)
        Matching(p) == IF p > Len(rows) THEN <<>>
                       ELSE IF pgFilter => rows[p].match
                            THEN <<p>> \o Matching(p + 1)
                            ELSE Matching(p + 1)
    IN Matching(1)

\* pages in which a store that evaluates e rows per request delivers the table
PagesOfSize(e) ==
    IF Len(rows) = 0 THEN 1
    ELSE ((Len(rows) + e - 1) \div e)
         + (IF boundaryCursor /\ Len(rows) % e = 0 THEN 1 ELSE 0)

\* the number k of pages the store delivers to this call
PagesDelivered == PagesOfSize(PageSizeOf(requests[1]))

\* C1: query and scan yield every item of every page exactly once, in store
\* order, with exactly one request per page the store delivers (k requests
\* for k pages) and no request after a response that carries no cursor.
C1_EveryPageYieldedOnce ==
    /\ IsPrefix(yielded, ResultSet)
    /\ requests # <<>> => Len(requests) <= PagesDelivered
    /\ pgPc = "done" =>
          /\ yielded = ResultSet
          /\ Len(requests) = PagesDelivered
          /\ "LastEvaluatedKey" \notin DOMAIN response

\* C1 witness: 5 items in pages of 2 gave 5 items and exactly 3 requests
C1_FiveItemsThreeRequests ==
    /\ pgPc = "done"
    /\ Len(rows) = 5
    /\ PageSizeOf(requests[1]) = 2
    /\ Len(yielded) = 5
    /\ Len(requests) = 3

\* C2: a limit bounds the page size passed on each request, never the total:
\* every request carries Limit = limit and the call still yields the whole
\* result set, also when it holds more than limit items.
C2_LimitBoundsPageNotTotal ==
    TruthyInt(pgLimit) =>
        /\ \A i \in DOMAIN requests :
              "Limit" \in DOMAIN requests[i] /\ requests[i].Limit = pgLimit
        /\ pgPc \in {"page", "done"} =>
              Len(PageItems(response)) <= pgLimit
        /\ pgPc = "done" => yielded = ResultSet

\* C2 witness: a finished call with limit L that yielded more than L items
C2_YieldedMoreThanLimit ==
    /\ pgPc = "done"
    /\ TruthyInt(pgLimit)
    /\ Len(yielded) > pgLimit
    /\ Len(requests) > 1

(***************************************************************************)
(* The reminder job                                                        *)
(***************************************************************************)
\* the user keys of the items the scan yielded
UsersYielded == {rows[yielded[i]].userId : i \in DOMAIN yielded}

C8_ScanErrorReportedAsFailure ==
    (remPc = "done" /\ scanRaised) =>
        /\ remResult.statusCode = 500
        /\ sendIssued = {}

\* C8 as amended: a scan that raised is swallowed by
\* get_users_with_reminders_enabled, which returns the user keys yielded
\* before the failure.  With none, the job sends nothing and reports status
\* 200 "No users found"; otherwise a send is started for each of them.  The
\* handler returns a result either way.
C8_ScanErrorSwallowed ==
    scanRaised =>
        /\ user_ids = UsersYielded
        /\ (remPc = "done" /\ user_ids = {}) =>
              /\ remResult = [statusCode |-> 200, body |-> "No users found"]
              /\ sendIssued = {}
        /\ (remPc \in {"gather", "done"} /\ user_ids # {}) =>
              \A u \in user_ids : taskPc[u] # "none"
        /\ remPc = "done" => remResult # <<>>

\* C8 witness: the scan raised on a later page and a reminder was still sent
C8_ReminderSentAfterScanError ==
    /\ scanRaised
    /\ remPc = "done"
    /\ Len(requests) > 1
    /\ delivered # {}

(***************************************************************************)
(* The mood-logging conversation                                           *)
(***************************************************************************)
\* the last update was a message or a button handled in this container
Handled(handler) == lastHandler = handler /\ lastCopy \in DOMAIN convState

\* how save_notes and skip_notes answer
AnswerMethod == IF lastHandler = "save_notes" THEN "reply_text"
                ELSE "edit_message_text"

\* the notes the claim expects of the entry: the text sent, "" on skip
NotesGiven == IF lastHandler = "save_notes" THEN lastUpdate.text ELSE ""

\* C3: a conversation that went IDLE -> ASK_MOOD -> ASK_NOTES -> IDLE with
\* mood m selected and whose write succeeded has put exactly one entry; the
\* entry is in the table, its moodValue is the m selected in that
\* conversation, its notes are "" on skip and the text on free text, and the
\* conversation is back in IDLE.
C3_OneEntryWithSelectedMood ==
    ((Handled("save_notes") \/ Handled("skip_notes")) /\ putOutcome = "ok") =>
        /\ convState[lastCopy] = "IDLE"
        /\ Len(putLog) = 1
        /\ \E i \in DOMAIN table : table[i] = putLog[1]
        /\ putLog[1].notes = NotesGiven
        /\ putLog[1].moodValue = selectedMood[lastCopy]

\* the update is the cancel command
IsCancel(upd) == upd = [type |-> "message", text |-> "/cancel"]

\* C4: a cancel command sent while a conversation is in ASK_MOOD or in
\* ASK_NOTES is handled by cancel: that conversation returns to IDLE, the
\* one reply is the cancellation acknowledgment, and no put is issued; nor
\* did the earlier steps of the conversation put anything, so the table is
\* as the cancelled conversation found it.
C4_CancelPersistsNothing ==
    [][/\ (/\ updates' = updates + 1
           /\ IsCancel(lastUpdate')
           /\ \E k \in DOMAIN convState : convState[k] # "IDLE") =>
              /\ lastHandler' = "cancel"
              /\ lastCopy' \in DOMAIN convState
              /\ convState[lastCopy'] \in {"ASK_MOOD", "ASK_NOTES"}
              /\ convState'[lastCopy'] = "IDLE"
              /\ replies' = <<[method |-> "reply_text",
                               text |-> <<CANCEL_CONVERSATION_TEXT>>]>>
              /\ putLog' = <<>>
              /\ table' = table
       /\ (/\ updates' = updates + 1
           /\ lastHandler' \in {"log_mood_start", "mood_selected"}) =>
              /\ putLog' = <<>>
              /\ table' = table
      ]_vars

\* C4 witness: a conversation that had a mood selected was cancelled while
\* the table held an entry
C4_CancelledInAskNotes ==
    /\ Handled("cancel")
    /\ convState[lastCopy] = "IDLE"
    /\ selectedMood[lastCopy] # ""
    /\ table # <<>>
    /\ putLog = <<>>

\* C5: when the put of save_notes or skip_notes fails, no tip is requested,
\* the one reply is the fixed failure text, no confirmation is sent, and the
\* conversation is in IDLE.
C5_PutFailureEndsWithoutTip ==
    putOutcome = "failed" =>
        /\ Handled("save_notes") \/ Handled("skip_notes")
        /\ tipRequests = 0
        /\ tipOutcome = "none"
        /\ replies = <<[method |-> AnswerMethod,
                        text |-> <<SAVE_MOOD_FAILURE_TEXT>>]>>
        /\ convState[lastCopy] = "IDLE"

\* C5 witness: the put of skip_notes failed
C5_SkipNotesPutFailed ==
    /\ putOutcome = "failed"
    /\ Handled("skip_notes")
    /\ Len(putLog) = 1

\* C6: when the tip request fails after a successful put, the entry is in
\* the table, the replies are the "Mood m logged!" confirmation with no tip
\* line and the main menu, never the failure text, and the conversation is
\* in IDLE.
C6_TipFailureKeepsSave ==
    tipOutcome = "raises" =>
        /\ Handled("save_notes") \/ Handled("skip_notes")
        /\ putOutcome = "ok"
        /\ \E i \in DOMAIN table : table[i] = putLog[1]
        /\ replies = <<[method |-> AnswerMethod,
                        text |-> <<"Mood ", putLog[1].moodValue, " logged!">>],
                       [method |-> "reply_text",
                        text |-> <<END_CONVERSATION_TEXT>>]>>
        /\ convState[lastCopy] = "IDLE"

\* C6 witness: the tip request of save_notes failed after its put succeeded
C6_SaveNotesTipFailed ==
    /\ tipOutcome = "raises"
    /\ Handled("save_notes")
    /\ putOutcome = "ok"

(***************************************************************************)
(* The mood history                                                        *)
(***************************************************************************)
\* C9: when the history query answers, show_history sends exactly one reply:
\* for a user with no entry the "no history" text and no chart is generated;
\* for a user with an entry a chart, as a photo, and no "no history" text.
C9_NoHistoryReplyOrChart ==
    (lastHandler = "show_history" /\ queryOutcome = "ok") =>
        IF table = <<>>
        THEN /\ replies = <<[method |-> "reply_text",
                             text |-> <<MOOD_HISTORY_NOT_FOUND_TEXT>>]>>
             /\ chart = <<>>
        ELSE /\ replies = <<[method |-> "reply_photo",
                             text |-> <<MOOD_HISTORY_LAST_30_DAYS_TEXT>>]>>
             /\ chart # <<>>
             /\ Len(chart.entries) >= 1

\* C9 witness: the history of a user with no entry was asked for and answered
C9_EmptyHistoryShown ==
    /\ lastHandler = "show_history"
    /\ queryOutcome = "ok"
    /\ table = <<>>
    /\ Len(replies) = 1

\* the k entries logged last
LastLogged(k) == SubSeq(logged, Len(logged) - k + 1, Len(logged))

\* C10: the entries show_history charts are exactly the min(30, n) entries
\* logged last, n being the number of moods the user has logged.
C10_ChartsMostRecentlyLogged ==
    (lastHandler = "show_history" /\ queryOutcome = "ok" /\ logged # <<>>) =>
        LET k == Min(HISTORY_LIMIT, Len(logged))
        IN /\ chart # <<>>
           /\ Len(chart.entries) = k
           /\ Range(chart.entries) = Range(LastLogged(k))

(***************************************************************************)
(* The entries persisted                                                   *)
(***************************************************************************)
\* v is an integer of lo..hi; a string of digits is not: a Python str is a
\* string here and a Python int an integer, and their printed forms differ
IsIntIn(v, lo, hi) == ToString(v) \in {ToString(i) : i \in lo..hi}

\* C11: every entry the table holds has a moodValue that is an integer in
\* [1,5], after any sequence of updates.
C11_PersistedMoodIsIntInRange ==
    \A i \in DOMAIN table : IsIntIn(table[i].moodValue, 1, 5)

\* C12: once a conversation has reached IDLE, by a save, a failed save or a
\* cancel, no mood value is left in the transient context of the user.
C12_MoodDiscardedAtIdle ==
    ((Handled("save_notes") \/ Handled("skip_notes") \/ Handled("cancel"))
        /\ convState[lastCopy] = "IDLE") =>
            "mood" \notin DOMAIN user_data

\* C13: every successful mood log created an entry of its own and no entry
\* was changed or replaced: after k successful logs the table holds k
\* entries, and each logged entry is in it as it was put.
C13_EveryLogKeepsItsEntry ==
    /\ Len(table) = Len(logged)
    /\ \A i \in DOMAIN logged : \E j \in DOMAIN table : table[j] = logged[i]

\* an update that selects no mood of 1..5: a button data outside the range,
\* or a text that is neither a command nor one of the menu buttons
InvalidMoodInput(upd) ==
    \/ IsCallback(upd) /\ ~IsMoodData(upd.data)
    \/ /\ IsTextNotCommand(upd)
       /\ upd.text \notin {LOG_MOOD_TEXT, MOOD_HISTORY_TEXT}

\* C15: an update that selects no valid mood, arriving while a conversation
\* is in ASK_MOOD, puts nothing, leaves that conversation in ASK_MOOD, and
\* is answered with a reply to the user.
C15_InvalidMoodRetryPrompt ==
    [][\A k \in DOMAIN convState :
          (/\ convState[k] = "ASK_MOOD"
           /\ updates' = updates + 1
           /\ InvalidMoodInput(lastUpdate')) =>
              /\ putLog' = <<>>
              /\ convState'[k] = "ASK_MOOD"
              /\ replies' # <<>>
      ]_vars

(***************************************************************************)
(* The entry points                                                        *)
(***************************************************************************)
\* C14: whenever an invocation of the update entry point raised, wherever it
\* raised, lambda_handler returned the generic 500 result and no exception
\* left it.
C14_ErrorsBecomeFailureResult ==
    invocationError # "none" => httpResult = ERROR_RESULT

(***************************************************************************)
(* The chart                                                               *)
(***************************************************************************)
\* C17: whenever show_history has drawn a chart, the timestamps it plots
\* never decrease along the plotting order, in whatever order the store
\* returned the entries.
C17_ChartTimestampsNonDecreasing ==
    chart # <<>> =>
        \A i, j \in DOMAIN chart.timestamps :
            i < j => chart.timestamps[i] <= chart.timestamps[j]

\* a chart of entries the store returned neither oldest first nor newest
\* first by timestamp
C17_ChartOfShuffledEntries ==
    /\ lastHandler = "show_history"
    /\ chart # <<>>
    /\ LET moods == GetMoodHistory(UserKey(USER_ID))
       IN /\ Len(moods) >= 3
          /\ chart.entries # moods
          /\ chart.entries # Reverse(moods)
          /\ Range(chart.entries) = Range(moods)

(***************************************************************************)
(* The requests of one call                                                *)
(***************************************************************************)
\* the arguments of a request other than its start cursor
OtherArgs(args) == DOMAIN args \ {"ExclusiveStartKey"}

\* C18: the first request of a call carries no start cursor; every later
\* request carries exactly the cursor the response before it returned, and
\* its other arguments are those of the request before it.
C18_CursorChainsRequests ==
    [][requests' # requests =>
          LET n == Len(requests)
              new == requests'[n + 1]
          IN /\ requests' = Append(requests, new)
             /\ n = 0 => "ExclusiveStartKey" \notin DOMAIN new
             /\ n > 0 =>
                   /\ "LastEvaluatedKey" \in DOMAIN response
                   /\ "ExclusiveStartKey" \in DOMAIN new
                   /\ new.ExclusiveStartKey = response.LastEvaluatedKey
                   /\ OtherArgs(new) = OtherArgs(requests[n])
                   /\ \A k \in OtherArgs(new) : new[k] = requests[n][k]
      ]_vars

\* a call with a limit, a filter and an index name that has made three
\* requests
C18_ThreeRequestsAllArgs ==
    /\ Len(requests) >= 3
    /\ pgFilter
    /\ pgIndex
    /\ TruthyInt(pgLimit)
    /\ requests[3].ExclusiveStartKey = StoreRespond(requests[2]).LastEvaluatedKey

\* the items of the pages the first n requests of the call asked for
RECURSIVE ItemsOfPages(_)
ItemsOfPages(n) == IF n = 0 THEN <<>>
                   ELSE ItemsOfPages(n - 1) \o ItemsOf(requests[n])

\* C20: a request is made only while the consumer asks for the next item,
\* and only once every item of every page requested before has been
\* yielded; the step that closes the generator, and no step after it, makes
\* a request.
C20_PageYieldedBeforeNextRequest ==
    [][/\ requests' # requests =>
             /\ pgPc = "request"
             /\ yielded = ItemsOfPages(Len(requests))
       /\ (pgPc = "closed" \/ pgPc' = "closed") => requests' = requests
      ]_vars

\* the consumer stopped after the items of page 2, the store had more
\* pages, and two requests were made
C20_StoppedAfterSecondPage ==
    /\ pgPc = "closed"
    /\ Len(requests) = 2
    /\ PageItems(response) # <<>>
    /\ yielded = ItemsOfPages(2)
    /\ "LastEvaluatedKey" \in DOMAIN response

\* the store's pagination of this call terminates: from any cursor, a page
\* without a cursor comes after finitely many pages
RECURSIVE PaginationEndsFrom(_, _)
PaginationEndsFrom(args, fuel) ==
    LET resp == StoreRespond(args)
    IN \/ "LastEvaluatedKey" \notin DOMAIN resp
       \/ /\ fuel > 0
          /\ PaginationEndsFrom(
                 RequestArgs(pgOp, resp.LastEvaluatedKey, pgLimit, pgFilter,
                             pgIndex), fuel - 1)

\* C16: the store's pagination terminating, a call the consumer keeps
\* iterating eventually ends; all along, every request but the last was
\* answered with a cursor, and no two requests carry the same cursor.
C16_IterationEnds ==
    /\ PaginationEndsFrom(RequestArgs(pgOp, <<>>, pgLimit, pgFilter, pgIndex),
                          Len(rows))
          => <>(pgPc \in {"done", "raised"})
    /\ [](/\ \A i \in 1..(Len(requests) - 1) :
                "LastEvaluatedKey" \in DOMAIN StoreRespond(requests[i])
          /\ \A i, j \in DOMAIN requests :
                i < j => StartOf(requests[i]) < StartOf(requests[j]))

\* a call that ended after four pages, one of them empty
C16_EndedAfterFourPages ==
    /\ pgPc = "done"
    /\ Len(requests) = 4
    /\ \E i \in DOMAIN requests : ItemsOf(requests[i]) = <<>>

(***************************************************************************)
(* Calls side by side                                                      *)
(***************************************************************************)
\* the result set of a call in store order: every row, or every row passing
\* the filter when the call has one
ResultSetOf(filter) ==
    SelectSeq([p \in 1..Len(rows) |-> p],
              LAMBDA p : filter => rows[p].match)

\* the requests of a call use no cursor first and then, each, the cursor
\* the store returned for the call's request before
OwnCursorsOnly(reqs) ==
    \A i \in DOMAIN reqs :
        IF i = 1 THEN "ExclusiveStartKey" \notin DOMAIN reqs[i]
        ELSE LET before == StoreRespond(reqs[i - 1])
             IN /\ "LastEvaluatedKey" \in DOMAIN before
                /\ "ExclusiveStartKey" \in DOMAIN reqs[i]
                /\ reqs[i].ExclusiveStartKey = before.LastEvaluatedKey

\* C19: with calls consumed in any interleaving, and started one after
\* another in the same slot, every call's first request carries no cursor,
\* its later requests carry the cursor returned to that call's request
\* before, and a call consumed to the end has yielded its own result set.
C19_CursorLocalToCall ==
    \A c \in Calls :
        /\ OwnCursorsOnly(calls[c].requests)
        /\ IsPrefix(calls[c].yielded, ResultSetOf(calls[c].filter))
        /\ calls[c].pc = "done" =>
              calls[c].yielded = ResultSetOf(calls[c].filter)

\* two calls consumed to the end, each over several pages, with different
\* requests and different results, one of them started in a slot where a
\* call had finished or been abandoned before
C19_TwoCallsDoneAfterAbandoned ==
    /\ started = 3
    /\ \A c \in Calls : calls[c].pc = "done" /\ Len(calls[c].requests) >= 2
    /\ calls[1].requests # calls[2].requests
    /\ calls[1].yielded # calls[2].yielded

(***************************************************************************)
(* The reminder fan-out                                                    *)
(***************************************************************************)
\* the user keys that have at least one mood record in the table
MoodUsers == {rows[p].userId : p \in {q \in DOMAIN rows : rows[q].match}}

\* C21: the users collected are the user keys of the mood records the scan
\* yielded, all of them when the scan ran to its end; once the sends are
\* dispatched, each of these users has exactly one send_reminder call and a
\* task, every other user has none, and no message goes out to a user
\* without a mood record.
C21_OneSendPerScannedUser ==
    /\ user_ids = UsersYielded
    /\ UsersYielded \subseteq MoodUsers
    /\ (remPc # "scan" /\ ~scanRaised) => UsersYielded = MoodUsers
    /\ sendIssued \subseteq UsersYielded
    /\ remPc \in {"gather", "done"} =>
          \A u \in RemUsers :
              /\ sendCalls[u] = IF u \in UsersYielded THEN 1 ELSE 0
              /\ taskPc[u] # "none" <=> u \in UsersYielded

\* a finished run over two mood records of one user that came on two pages:
\* one send_reminder call, and the message was delivered
C21_TwoRecordsTwoPagesOneSend ==
    /\ remPc = "done"
    /\ Len(rows) = 2
    /\ rows[1].userId = rows[2].userId
    /\ yielded = <<1, 2>>
    /\ Len(requests) >= 2
    /\ sendCalls[rows[1].userId] = 1
    /\ delivered = {rows[1].userId}

\* C22: no send_reminder reaches bot.send_message on an application that
\* the exit of another send_reminder has shut down: no send ends with the
\* RuntimeError of a closed client.
C22_NoSendAfterSharedShutdown ==
    \A u \in RemUsers : taskOutcome[u] # "RuntimeError"

====
